---- MODULE Spec2Model ----
(***************************************************************************)
(* Model of src/app.py, the Streamlit "Smart Expense Tracker".             *)
(*                                                                         *)
(* The script is re-executed from its first to its last line on every user *)
(* interaction.  What survives between two executions is the durable file  *)
(* DATA_FILE, the process-wide cache of load_data() (st.cache_data), the   *)
(* session's st.session_state.df and the widgets' values.  One action of   *)
(* the model is one interaction followed by the whole script run.          *)
(*                                                                         *)
(* Encoding of table cells                                                 *)
(*   Date        [k, ym, d]  k = "val": a date, ym its "YYYY-MM" part and  *)
(*                           d its day; k = "bad": text to_datetime cannot *)
(*                           parse (files only); k = "null": empty cell or *)
(*                           NaT                                           *)
(*   Amount      [k, v]      k = "val": the number v (whole rupees);       *)
(*                           "bad" and "null" as for Date (NaN)            *)
(*   Category,   [k, v]      k = "txt": text v of a CSV cell; k = "str": a *)
(*   Description             Python str; k = "num": the number written v;  *)
(*                           k = "null": empty cell or NaN                 *)
(***************************************************************************)
EXTENDS Integers, Sequences, FiniteSets, TLC

\* Longest ledger a form submission is still offered for.
MaxRows == 2

-----------------------------------------------------------------------------
(* Cells *)

DateVal(ym, d) == [k |-> "val", ym |-> ym, d |-> d]
BadDate == [k |-> "bad", ym |-> "", d |-> 0]
NaT == [k |-> "null", ym |-> "", d |-> 0]

AmountVal(x) == [k |-> "val", v |-> x]
BadAmount == [k |-> "bad", v |-> 0]
NaN == [k |-> "null", v |-> 0]

Txt(s) == [k |-> "txt", v |-> s]
Str(s) == [k |-> "str", v |-> s]
Num(s) == [k |-> "num", v |-> s]
Empty == [k |-> "null", v |-> ""]

\* "All", the first option of both select boxes.
All == "All"
AllCategory == Str(All)

\* The value top_category gets for an empty filtered table.
NA == Str("N/A")

\* The columns load_data() gives a new file, and every to_csv() writes.
Schema == {"Date", "Category", "Amount", "Description"}

required_cols == {"Date", "Category", "Amount"}

-----------------------------------------------------------------------------
(* Inputs: what the user can type, pick or upload. *)

\* The category select box of the form (a part of its seven options).
FormCategories == {"Food", "Travel"}

\* new_row: the date, category, amount and description typed into the form.
FormRow(d, c, a, t) ==
    [Date |-> d, Category |-> Str(c), Amount |-> AmountVal(a), Description |-> Str(t)]

\* The submissions tried: two months, two categories (equal sums within
\* January), two amounts, the description left empty or not.
FormRows ==
    { FormRow(DateVal("2024-01", 5), "Food", 50, ""),
      FormRow(DateVal("2024-01", 5), "Travel", 50, "lunch"),
      FormRow(DateVal("2024-02", 3), "Food", 30, "lunch"),
      FormRow(DateVal("2024-02", 3), "Travel", 30, "") }

\* new_row before any submission.
NoRow == [Date |-> NaT, Category |-> Empty, Amount |-> NaN, Description |-> Empty]

Budgets == {0, 100}

\* A CSV line.  A column the file does not have is Empty/NaT/NaN in every line.
Line(d, c, a, t) == [Date |-> d, Category |-> c, Amount |-> a, Description |-> t]

CsvFile(cols, rows) == [exists |-> TRUE, cols |-> cols, rows |-> rows]

\* DATA_FILE does not exist; also the empty upload control.
NoFile == [exists |-> FALSE, cols |-> {}, rows |-> <<>>]

\* Date,Category,Amount / 2024-01-05,Food,100 / not-a-date,Food,50
UploadNoDescription ==
    CsvFile({"Date", "Category", "Amount"},
            << Line(DateVal("2024-01", 5), Txt("Food"), AmountVal(100), Empty),
               Line(BadDate, Txt("Food"), AmountVal(50), Empty) >>)

\* Date,Category,Description / 2024-01-05,Food,lunch
UploadNoAmount ==
    CsvFile({"Date", "Category", "Description"},
            << Line(DateVal("2024-01", 5), Txt("Food"), NaN, Txt("lunch")) >>)

\* Date,Category,Amount,Description / 2024-01-05,7,100,lunch / 2024-02-03,,50,
UploadNumericCategory ==
    CsvFile(Schema,
            << Line(DateVal("2024-01", 5), Txt("7"), AmountVal(100), Txt("lunch")),
               Line(DateVal("2024-02", 3), Empty, AmountVal(50), Empty) >>)

\* Date,Category,Amount,Description / not-a-date,Food,100, / 2024-01-05,Food,abc,
UploadNothingParses ==
    CsvFile(Schema,
            << Line(BadDate, Txt("Food"), AmountVal(100), Empty),
               Line(DateVal("2024-01", 5), Txt("Food"), BadAmount, Empty) >>)

\* Date,Category,Amount,Description / 2024-01-05,Zed,-20,lunch / 2024-01-05,Food,,
UploadOpenCategory ==
    CsvFile(Schema,
            << Line(DateVal("2024-01", 5), Txt("Zed"), AmountVal(-20), Txt("lunch")),
               Line(DateVal("2024-01", 5), Txt("Food"), NaN, Empty) >>)

UploadFiles ==
    { UploadNoDescription, UploadNoAmount, UploadNumericCategory,
      UploadNothingParses, UploadOpenCategory }

\* expenses.csv as an earlier process or an editor left it:
\* Date,Category,Amount,Description / not-a-date,Food,100,
ExternalFile ==
    CsvFile(Schema, << Line(BadDate, Txt("Food"), AmountVal(100), Empty) >>)

\* expenses.csv as an earlier run of the program wrote it:
\* Date,Category,Amount,Description / 2024-01-05,Food,50,
EarlierFile ==
    CsvFile(Schema, << Line(DateVal("2024-01", 5), Txt("Food"), AmountVal(50), Empty) >>)

InitialFiles == {NoFile, ExternalFile, EarlierFile}

-----------------------------------------------------------------------------
(* pandas *)

\* pd.to_datetime(..., errors="coerce"), cell by cell.
to_datetime(c) == IF c.k = "val" THEN c ELSE NaT

\* pd.to_numeric(..., errors="coerce"), cell by cell.
to_numeric(c) == IF c.k = "val" THEN c ELSE NaN

\* The cell texts read_csv takes for numbers ("7" stands for every spelling
\* of the number, "7.0" included).
NumericTexts == {"7"}

\* read_csv infers a column's type: a column whose non-empty cells are all
\* numbers is numeric, any other column holds str; an empty cell is NaN.
IsNumericColumn(cells) ==
    \A i \in 1..Len(cells) : cells[i].k = "null" \/ cells[i].v \in NumericTexts

ReadText(c, numeric) ==
    IF c.k = "null" THEN Empty
    ELSE IF numeric THEN Num(c.v) ELSE Str(c.v)

Column(rows, name) ==
    [i \in 1..Len(rows) |->
        CASE name = "Category" -> rows[i].Category
          [] name = "Description" -> rows[i].Description]

\* pd.read_csv: Date and Amount are kept as read (the caller coerces them).
read_csv(f) ==
    LET numCat == IsNumericColumn(Column(f.rows, "Category"))
        numDesc == IsNumericColumn(Column(f.rows, "Description"))
    IN  [i \in 1..Len(f.rows) |->
            [Date |-> f.rows[i].Date,
             Category |-> ReadText(f.rows[i].Category, numCat),
             Amount |-> f.rows[i].Amount,
             Description |-> ReadText(f.rows[i].Description, numDesc)]]

\* to_csv writes NaN, NaT and the empty str alike as an empty cell.
WriteText(c) == IF c.k = "null" \/ c.v = "" THEN Empty ELSE Txt(c.v)

to_csv(t) ==
    CsvFile(Schema,
            [i \in 1..Len(t) |->
                [Date |-> t[i].Date,
                 Category |-> WriteText(t[i].Category),
                 Amount |-> t[i].Amount,
                 Description |-> WriteText(t[i].Description)]])

\* The two "CRITICAL TYPE FIX" lines.
Coerce(t) ==
    [i \in 1..Len(t) |->
        [t[i] EXCEPT !.Date = to_datetime(t[i].Date), !.Amount = to_numeric(t[i].Amount)]]

NotNull(r) == r.Date.k = "val" /\ r.Amount.k = "val"

\* dropna(subset=["Date", "Amount"])
dropna(t) == SelectSeq(t, NotNull)

RECURSIVE Sum(_)
\* Series.sum() of the Amount column.
Sum(t) == IF t = <<>> THEN 0 ELSE t[1].Amount.v + Sum(Tail(t))

-----------------------------------------------------------------------------
(* The script, top to bottom *)

NoCache == [hit |-> FALSE, val |-> <<>>]

\* @st.cache_data load_data(): the first call computes, every later call of the
\* process gets the value of the first.
load_data(f, c) ==
    IF c.hit
    THEN [df |-> c.val, file |-> f, cache |-> c]
    ELSE IF ~f.exists
         THEN [df |-> <<>>, file |-> to_csv(<<>>), cache |-> [hit |-> TRUE, val |-> <<>>]]
         ELSE LET t == Coerce(read_csv(f))
              IN  [df |-> t, file |-> f, cache |-> [hit |-> TRUE, val |-> t]]

\* if submitted: concat the new row, write the whole table.
SubmitStep(t, f, sub, row) ==
    IF sub
    THEN LET t2 == Append(t, row) IN [df |-> t2, file |-> to_csv(t2)]
    ELSE [df |-> t, file |-> f]

\* ImportTable with the rows of a missing Amount kept (dropna on Date alone).
ImportTable_DateOnly(up) ==
    LET temp == read_csv(up)
        described ==
            IF "Description" \in up.cols THEN temp
            ELSE [i \in 1..Len(temp) |-> [temp[i] EXCEPT !.Description = Str("")]]
        HasDate(r) == r.Date.k = "val"
    IN  SelectSeq(Coerce(described), HasDate)

\* Lines 85-99 on an accepted file.
ImportTable(up) ==
    LET temp == read_csv(up)
        described ==
            IF "Description" \in up.cols THEN temp
            ELSE [i \in 1..Len(temp) |-> [temp[i] EXCEPT !.Description = Str("")]]
    IN  dropna(Coerce(described))

\* UploadStep with the column check made after the table is stored.
UploadStep_StoreFirst(t, f, up) ==
    IF ~up.exists
    THEN [df |-> t, file |-> f, stop |-> FALSE]
    ELSE LET temp == dropna(Coerce(read_csv(up)))
         IN  [df |-> temp, file |-> to_csv(temp),
              stop |-> ~(required_cols \subseteq up.cols)]

\* if uploaded: reject (st.stop) or replace the ledger and the file.
UploadStep(t, f, up) ==
    IF ~up.exists
    THEN [df |-> t, file |-> f, stop |-> FALSE]
    ELSE IF ~(required_cols \subseteq up.cols)
         THEN [df |-> t, file |-> f, stop |-> TRUE]
         ELSE LET temp == ImportTable(up)
              IN  [df |-> temp, file |-> to_csv(temp), stop |-> FALSE]

\* The safety net and the Month column.
Clean(t) ==
    LET c == dropna(Coerce(t))
    IN  [i \in 1..Len(c) |->
            [Date |-> c[i].Date, Category |-> c[i].Category, Amount |-> c[i].Amount,
             Description |-> c[i].Description, Month |-> c[i].Date.ym]]

Months(d) == {d[i].Month : i \in 1..Len(d)}
Categories(d) == {d[i].Category : i \in 1..Len(d)}

MonthOptions(d) == {All} \cup Months(d)
CategoryOptions(d) == {AllCategory} \cup Categories(d)

\* sorted() of the unique categories: Python cannot order a str against a
\* float (a number or NaN) and raises TypeError.
SortRaises(cats) ==
    /\ \E c \in cats : c.k = "str"
    /\ \E c \in cats : c.k # "str"

\* Filter with the category picked out of df instead of filtered_df.
Filter_CategoryOfAll(d, m, c) ==
    LET InMonth(r) == r.Month = m
        InCategory(r) == r.Category.k # "null" /\ r.Category = c
        f1 == IF m # All THEN SelectSeq(d, InMonth) ELSE d
    IN  IF c # AllCategory THEN SelectSeq(d, InCategory) ELSE f1

\* filtered_df
Filter(d, m, c) ==
    LET InMonth(r) == r.Month = m
        InCategory(r) == r.Category.k # "null" /\ r.Category = c
        f1 == IF m # All THEN SelectSeq(d, InMonth) ELSE d
    IN  IF c # AllCategory THEN SelectSeq(f1, InCategory) ELSE f1

\* groupby("Category")["Amount"].sum(): rows whose key is NaN are in no group.
GroupSum(f) ==
    LET keys == {f[i].Category : i \in {j \in 1..Len(f) : f[j].Category.k # "null"}}
    IN  [key \in keys |->
            LET InGroup(r) == r.Category = key IN Sum(SelectSeq(f, InGroup))]

\* The str order of the category texts of this model ('7' < 'F' < 'T' < 'Z').
CategoryOrder == <<"7", "Food", "Travel", "Zed", "All", "N/A">>

Rank(c) == CHOOSE i \in 1..Len(CategoryOrder) : CategoryOrder[i] = c.v

\* idxmax() of an empty Series raises ValueError.
Raised == [k |-> "raise", v |-> "ValueError"]

\* groupby sorts its keys, idxmax gives the first key of the largest sum.
TopCategory(f) ==
    IF f = <<>> THEN NA
    ELSE LET g == GroupSum(f)
         IN  IF DOMAIN g = {} THEN Raised
             ELSE CHOOSE key \in DOMAIN g :
                    /\ \A o \in DOMAIN g : g[o] <= g[key]
                    /\ \A o \in DOMAIN g : g[o] = g[key] => Rank(key) <= Rank(o)

\* BudgetAlert with the bands' lower ends left out (> for >=).
BudgetAlert_Strict(total, budget) ==
    IF budget > 0
    THEN LET usage == (total * 100) \div budget
         IN  IF usage > 100 THEN "exceeded"
             ELSE IF usage > 80 THEN "approaching"
             ELSE "under control"
    ELSE "none"

\* usage = (total_expense / monthly_budget) * 100, compared with 100 and 80;
\* for whole amounts the comparisons of its integer part are those of usage.
BudgetAlert(total, budget) ==
    IF budget > 0
    THEN LET usage == (total * 100) \div budget
         IN  IF usage >= 100 THEN "exceeded"
             ELSE IF usage >= 80 THEN "approaching"
             ELSE "under control"
    ELSE "none"

NoSummary == [key \in {} |-> 0]

\* What a run leaves when it ends before the dashboard.
Halted(why) ==
    [status |-> why, df |-> <<>>, selected_month |-> All,
     selected_category |-> AllCategory, filtered_df |-> <<>>, total_expense |-> 0,
     top_category |-> Empty, category_summary |-> NoSummary, alert |-> "none"]

\* Lines 107-169 for the ledger t, with m and c picked in the select boxes.
Dashboard(t, bud, m, c) ==
    IF t = <<>> THEN Halted("empty")
    ELSE LET d == Clean(t) IN
         IF SortRaises(Categories(d))
         THEN [Halted("TypeError") EXCEPT !.df = d, !.selected_month = m]
         ELSE LET f == Filter(d, m, c)
                  top == TopCategory(f)
              IN  IF top = Raised
                  THEN [Halted("ValueError") EXCEPT
                            !.df = d, !.selected_month = m, !.selected_category = c,
                            !.filtered_df = f, !.total_expense = Sum(f)]
                  ELSE [status |-> "ok", df |-> d, selected_month |-> m,
                        selected_category |-> c, filtered_df |-> f,
                        total_expense |-> Sum(f), top_category |-> top,
                        category_summary |-> IF f = <<>> THEN NoSummary ELSE GroupSum(f),
                        alert |-> BudgetAlert(Sum(f), bud)]

-----------------------------------------------------------------------------
(* State *)

VARIABLES
    file,               \* DATA_FILE
    cache,              \* the value st.cache_data holds for load_data()
    in_session,         \* "df" in st.session_state
    st_df,              \* st.session_state.df
    uploaded,           \* the file the upload control holds
    monthly_budget,     \* the sidebar's number input
    selected_month,
    selected_category,
    submitted,          \* the form's button, in the last run
    new_row,            \* the row the last run built (NoRow: none)
    status,             \* how far the last run got
    df,                 \* the script's cleaned table
    filtered_df,
    total_expense,
    top_category,
    category_summary,
    alert

widgets == <<uploaded, monthly_budget, selected_month, selected_category>>
outputs == <<status, df, filtered_df, total_expense, top_category, category_summary, alert>>
vars == <<file, cache, in_session, st_df, submitted, new_row, widgets, outputs>>

\* The select boxes were drawn by the last run.
MonthShown == status \in {"ok", "ValueError", "TypeError"}
CategoryShown == status \in {"ok", "ValueError"}

\* A select box keeps its value while its options stay the same; with other
\* options it is a new widget, which keeps the value or starts at "All"
\* depending on the Streamlit release; a value no longer offered is dropped.
Kept(want, new, old, shown, first) ==
    IF want \notin new THEN {first}
    ELSE IF shown /\ new = old THEN {want}
    ELSE {want, first}

Init ==
    /\ file \in InitialFiles
    /\ cache = NoCache
    /\ in_session = FALSE
    /\ st_df = <<>>
    /\ uploaded = NoFile
    /\ monthly_budget = 0
    /\ selected_month = All
    /\ selected_category = AllCategory
    /\ submitted = FALSE
    /\ new_row = NoRow
    /\ status = "none"
    /\ df = <<>>
    /\ filtered_df = <<>>
    /\ total_expense = 0
    /\ top_category = Empty
    /\ category_summary = NoSummary
    /\ alert = "none"

\* Lines 33-104: the session's table, the form, the upload.
Ledger(fresh, sub, row, up) ==
    LET ld == IF fresh THEN load_data(file, cache)
              ELSE [df |-> st_df, file |-> file, cache |-> cache]
        s1 == SubmitStep(ld.df, ld.file, sub, row)
        s2 == UploadStep(s1.df, s1.file, up)
    IN  [df |-> s2.df, file |-> s2.file, stop |-> s2.stop, cache |-> ld.cache]

\* One execution of the script.
Script(fresh, sub, row, up, bud, wantM, wantC) ==
    \E s \in {Ledger(fresh, sub, row, up)} :
    \E d \in {Clean(s.df)} :
    \E m \in Kept(wantM, MonthOptions(d), MonthOptions(df), MonthShown, All) :
    \E c \in Kept(wantC, CategoryOptions(d), CategoryOptions(df), CategoryShown, AllCategory) :
    \E out \in {IF s.stop THEN Halted("rejected") ELSE Dashboard(s.df, bud, m, c)} :
        /\ in_session' = TRUE
        /\ cache' = s.cache
        /\ submitted' = sub
        /\ new_row' = row
        /\ uploaded' = up
        /\ monthly_budget' = bud
        /\ st_df' = s.df
        /\ file' = s.file
        /\ status' = out.status
        /\ df' = out.df
        /\ selected_month' = out.selected_month
        /\ selected_category' = out.selected_category
        /\ filtered_df' = out.filtered_df
        /\ total_expense' = out.total_expense
        /\ top_category' = out.top_category
        /\ category_summary' = out.category_summary
        /\ alert' = out.alert

\* A browser opens (or reloads) the page: a new session, every widget at its
\* default.
OpenSession ==
    \E fresh \in {TRUE} :
        Script(fresh, FALSE, NoRow, NoFile, 0, All, AllCategory)

\* "Add Expense"
SubmitForm ==
    /\ in_session
    /\ Len(st_df) < MaxRows
    /\ \E row \in FormRows :
          Script(FALSE, TRUE, row, uploaded, monthly_budget,
                 selected_month, selected_category)

\* A file is dropped on the upload control.
UploadCsv ==
    /\ in_session
    /\ \E up \in UploadFiles \ {uploaded} :
          Script(FALSE, FALSE, NoRow, up, monthly_budget,
                 selected_month, selected_category)

\* The file is removed from the upload control.
RemoveUpload ==
    /\ in_session
    /\ uploaded.exists
    /\ Script(FALSE, FALSE, NoRow, NoFile, monthly_budget,
              selected_month, selected_category)

SetBudget ==
    /\ in_session
    /\ \E bud \in Budgets \ {monthly_budget} :
          Script(FALSE, FALSE, NoRow, uploaded, bud,
                 selected_month, selected_category)

\* One of the two select boxes is changed.
SelectFilter ==
    /\ in_session
    /\ MonthShown
    /\ \E m \in MonthOptions(df),
          c \in IF CategoryShown THEN CategoryOptions(df) ELSE {selected_category} :
          /\ <<m, c>> # <<selected_month, selected_category>>
          /\ Script(FALSE, FALSE, NoRow, uploaded, monthly_budget, m, c)

Next ==
    \/ OpenSession
    \/ SubmitForm
    \/ UploadCsv
    \/ RemoveUpload
    \/ SetBudget
    \/ SelectFilter

Spec == Init /\ [][Next]_vars

-----------------------------------------------------------------------------
(* Properties *)

\* Two rows are the same record: the same date, amount, category text and
\* description text (a description left empty and a missing one count as
\* the same).
SameRecord(a, b) ==
    /\ a.Date = b.Date
    /\ a.Amount = b.Amount
    /\ WriteText(a.Category) = WriteText(b.Category)
    /\ WriteText(a.Description) = WriteText(b.Description)

Contains(t, r) == \E i \in 1..Len(t) : SameRecord(t[i], r)

\* An accepted file is in the upload control.
AcceptedUpload == uploaded.exists /\ required_cols \subseteq uploaded.cols
RejectedUpload == uploaded.exists /\ ~(required_cols \subseteq uploaded.cols)

\* C1 (round trip): once a form submission has appended new_row (no upload
\* in the way), a call of load_data() returns a table that contains new_row.
C1_RoundTrip ==
    (submitted /\ ~uploaded.exists) => Contains(load_data(file, cache).df, new_row)

\* C2 (store synchronisation): between interactions DATA_FILE holds the same
\* records as st.session_state.df, i.e. both read back as the same table.
C2_StoreSynchronised ==
    in_session => Coerce(read_csv(file)) = Coerce(read_csv(to_csv(st_df)))

\* C3 (import rejection): a run whose upload lacks a required column ends
\* rejected, and leaves st.session_state.df and DATA_FILE as they were before
\* the import step: as the run found them, or with the submitted row appended
\* and written when the same run handled a submission first.
C3_ImportRejection ==
    [][ (uploaded'.exists /\ ~(required_cols \subseteq uploaded'.cols)) =>
            /\ status' = "rejected"
            /\ IF submitted'
               THEN st_df' = Append(st_df, new_row') /\ file' = to_csv(st_df')
               ELSE st_df' = st_df /\ file' = file ]_vars

\* C3 witness: an import was rejected while the ledger held records.
C3_Witness == RejectedUpload /\ status = "rejected" /\ st_df # <<>>

\* The lines of f whose Date and Amount both parse.
ValidLines(f) ==
    {i \in 1..Len(f.rows) : f.rows[i].Date.k = "val" /\ f.rows[i].Amount.k = "val"}

NthValid(f, n) ==
    CHOOSE i \in ValidLines(f) : Cardinality({j \in ValidLines(f) : j <= i}) = n

\* C4 (import replaces wholesale): with an accepted file uploaded the ledger
\* is exactly the file's lines whose Date and Amount parse, in file order, the
\* Description empty when the file has no such column; nothing else is in it,
\* and with no such line the ledger is empty and the run still succeeds.
C4_ImportReplaces ==
    AcceptedUpload =>
        /\ Len(st_df) = Cardinality(ValidLines(uploaded))
        /\ \A n \in 1..Len(st_df) :
              LET line == uploaded.rows[NthValid(uploaded, n)]
              IN  /\ st_df[n].Date = line.Date
                  /\ st_df[n].Amount = line.Amount
                  /\ WriteText(st_df[n].Category) = line.Category
                  /\ IF "Description" \in uploaded.cols
                     THEN WriteText(st_df[n].Description) = line.Description
                     ELSE st_df[n].Description = Str("")
        /\ file = to_csv(st_df)
        /\ ValidLines(uploaded) = {} => st_df = <<>> /\ status = "empty"

\* C4 witness: an import that dropped a line and kept another, no column
\* Description in the file.
C4_Witness ==
    /\ AcceptedUpload
    /\ "Description" \notin uploaded.cols
    /\ Len(st_df) = 1
    /\ Len(uploaded.rows) = 2

\* C5 (ledger validity): no record of st.session_state.df, and none the
\* program wrote to DATA_FILE, lacks its date or its amount.
C5_LedgerValid ==
    /\ \A i \in 1..Len(st_df) : NotNull(st_df[i])
    /\ (submitted \/ AcceptedUpload) => \A i \in 1..Len(file.rows) : NotNull(file.rows[i])

RECURSIVE SumValues(_)
\* The sum of the values of a breakdown.
SumValues(g) ==
    IF DOMAIN g = {} THEN 0
    ELSE LET key == CHOOSE x \in DOMAIN g : TRUE
         IN  g[key] + SumValues([x \in DOMAIN g \ {key} |-> g[x]])

\* C6 (sum consistency): for a non-empty filtered table the total equals
\* the sum of the per-category breakdown.
C6_SumConsistency ==
    (status = "ok" /\ filtered_df # <<>>) => total_expense = SumValues(category_summary)

\* C7 (top category): the computation never fails; it gives "N/A" for an
\* empty filtered table and otherwise a category of the largest sum, the
\* first such in the categories' order.
C7_TopCategory ==
    /\ status # "ValueError"
    /\ status = "ok" =>
          IF filtered_df = <<>> THEN top_category = NA
          ELSE /\ top_category \in DOMAIN category_summary
               /\ \A o \in DOMAIN category_summary :
                     /\ category_summary[o] <= category_summary[top_category]
                     /\ category_summary[o] = category_summary[top_category]
                            => Rank(top_category) <= Rank(o)

\* C8 (budget bands): with a budget > 0 exactly one alert is raised:
\* exceeded iff usage >= 100, approaching iff 80 <= usage < 100, under control
\* iff usage < 80, for usage = total / budget * 100; with no budget, none.
C8_BudgetBands ==
    /\ monthly_budget <= 0 => alert = "none"
    /\ status = "ok" =>
        IF monthly_budget > 0
        THEN /\ alert \in {"exceeded", "approaching", "under control"}
             /\ alert = "exceeded" <=> total_expense * 100 >= 100 * monthly_budget
             /\ alert = "approaching" <=>
                    /\ total_expense * 100 >= 80 * monthly_budget
                    /\ total_expense * 100 < 100 * monthly_budget
             /\ alert = "under control" <=> total_expense * 100 < 80 * monthly_budget
        ELSE alert = "none"

\* C8 witness: usage is exactly 80, the lower end of "approaching".
C8_Witness ==
    /\ status = "ok"
    /\ monthly_budget > 0
    /\ total_expense * 100 = 80 * monthly_budget
    /\ alert = "approaching"

\* A row is of month m and of category c ("All" matches every row).
Matches(r, m, c) ==
    /\ m # All => r.Month = m
    /\ c # AllCategory => r.Category.k # "null" /\ r.Category = c

Subsequence(t, m, c) ==
    LET Test(r) == Matches(r, m, c) IN SelectSeq(t, Test)

\* C9 (filter composition): filtering by month and then by category gives
\* what filtering by both gives, namely the rows that match both in their
\* order; "All" and "All" give the table itself; the table shown is the
\* filter of the selection; and changing a select box leaves the ledger and
\* the file alone.
C9_FilterComposition ==
    /\ [](status \in {"ok", "ValueError"} =>
            /\ \A m \in MonthOptions(df), c \in CategoryOptions(df) :
                  /\ Filter(Filter(df, m, AllCategory), All, c) = Filter(df, m, c)
                  /\ Filter(df, m, c) = Subsequence(df, m, c)
            /\ Filter(df, All, AllCategory) = df
            /\ filtered_df = Subsequence(df, selected_month, selected_category))
    /\ [][SelectFilter => st_df' = st_df /\ file' = file]_vars

\* C9 witness: both select boxes set, some rows kept and some left out.
C9_Witness ==
    /\ status = "ok"
    /\ selected_month # All
    /\ selected_category # AllCategory
    /\ filtered_df # <<>>
    /\ Len(filtered_df) < Len(df)

\* C10 (an import takes effect once): a row appended by a form submission is
\* in the ledger and in the file when that run ends, whether or not an
\* earlier upload is still in the upload control.
C10_ImportOnce ==
    submitted => Contains(st_df, new_row) /\ Contains(read_csv(file), new_row)

====
